---- MODULE Spec2Model ----
(***************************************************************************)
(* ctrq: a thin wrapper over libctru's httpc API (src/ctrq.hpp).           *)
(*                                                                         *)
(* One request is modelled from the construction of its `response` object  *)
(* to that object's destruction.  Every call the wrapper makes on the      *)
(* transport (libctru httpc) is one step; its answer is chosen             *)
(* nondeterministically.  `log` records the transport calls in order.      *)
(* The request functions return their local `res` by name; the model       *)
(* follows the single-object reading (the return value is constructed in   *)
(* place, as GCC does for this shape of function), so one destructor runs  *)
(* per request.                                                            *)
(***************************************************************************)
EXTENDS Integers, Sequences, FiniteSets, TLC

VARIABLES
    args,       \* the arguments of the request function being run
    res,        \* the response object (src/ctrq.hpp:42-131)
    pc,         \* position of the program
    it,         \* iterator of the running std::map loop (add_headers / add_ascii_post_params)
    caller,     \* which accessor entered the download loop
    log,        \* transport calls so far, in order
    ret,        \* value returned by the last accessor call
    lastOp,     \* last member function of the response the caller invoked
    calls,      \* number of member-function calls made by the caller
    nExplicit   \* number of explicit close_context() calls made by the caller

vars == <<args, res, pc, it, caller, log, ret, lastOp, calls, nExplicit>>

----------------------------------------------------------------------------
(* Bounds of the model *)

MaxHeaders == 2
MaxParams == 2
MaxDownloads == 2
MaxCalls == 2

(* Program constants *)

CTRQ_HEADER_BUFFER_SIZE == 4096
CTRQ_DOWNLOAD_BUFFER_SIZE == 4096
HTTPC_RESULTCODE_DOWNLOADPENDING == -666853333

CTRQ_USER_AGENT == "ctrq/0.0.1"

httpc_failure ==
    {"NONE", "OPEN_CONTEXT", "DISABLE_SSL_VERIFY", "SET_KEEP_ALIVE",
     "SET_KEEP_ALIVE_HEADER", "SET_USER_AGENT", "SET_HEADER", "BEGIN_REQUEST",
     "GET_RESPONSE_STATUS_CODE", "ADD_RAW_POST_DATA", "ADD_ASCII_POST_PARAM"}

R_FAILED(r) == r < 0

----------------------------------------------------------------------------
(* Inputs and transport answers *)

Ops ==
    {"get", "post_raw", "post_vector", "post_string", "post_params",
     "put_raw", "put_vector", "put_string", "put_params", "deleet"}

RawOps == {"post_raw", "post_vector", "post_string",
           "put_raw", "put_vector", "put_string"}
ParamOps == {"post_params", "put_params"}

Urls == {"http://a/", "http://b/"}
Proxies == {0, 1}

\* A std::map<std::string, std::string> with n entries; iteration visits the
\* keys in order, so a map is its sequence of (key, value) pairs.
KeyNames == <<"a", "b", "c", "d">>
ValueNames == <<"1", "2", "3", "4">>
StringMap(prefix, n) == [k \in 1..n |-> <<prefix, KeyNames[k], ValueNames[k]>>]

\* The `headers` pointer: nullptr, or a map
HeaderArgs ==
    {[null |-> TRUE, map |-> <<>>]}
        \cup {[null |-> FALSE, map |-> StringMap("H", n)] : n \in 0..MaxHeaders}
ParamArgs(op) ==
    IF op \in ParamOps THEN {StringMap("P", n) : n \in 0..MaxParams}
    ELSE {<<>>}
BodyArgs(op) == IF op \in RawOps THEN {<<104, 105>>} ELSE {<<>>}

Results == {-1, 0}
DownloadResults == {-1, 0, HTTPC_RESULTCODE_DOWNLOADPENDING}
StatusCodes == {200, 404, 500}
\* What one httpcDownloadData call leaves behind: the bytes it wrote into the
\* buffer and the size it reports in *downloadedsize.
Chunks == {[data |-> <<>>, size |-> 0],
           [data |-> <<0>>, size |-> 1],
           [data |-> <<104, 0, 105>>, size |-> 2]}
HeaderNames == {"Content-Type"}
\* What httpcGetResponseHeader writes into the zeroed buffer
HeaderBuffers == {<<>>, <<104, 0, 105>>}

----------------------------------------------------------------------------
(* The response object *)

\* Variant: a response whose status member has no initialiser
NewResponse_StatusUnset ==
    [http_context_closed |-> FALSE,
     body |-> <<>>, body_populated |-> FALSE,
     body_string |-> <<>>, body_string_populated |-> FALSE,
     status |-> 500, result |-> 0, failure |-> "NONE"]

NewResponse ==
    [http_context_closed |-> FALSE,
     body |-> <<>>, body_populated |-> FALSE,
     body_string |-> <<>>, body_string_populated |-> FALSE,
     status |-> 0, result |-> 0, failure |-> "NONE"]

\* Variant: a response that also counts an HTTP error status as a failure
has_failed_ByStatus(r) == R_FAILED(r.result) \/ r.status >= 400

has_failed(r) == R_FAILED(r.result)

\* _CTRQ_FALSE_IF_FAILED, the failing branch
FalseIfFailed(r, fail, result) ==
    [r EXCEPT !.failure = fail, !.result = result]

Call(step, name, a, r) == [step |-> step, call |-> name, a |-> a, r |-> r]

\* Each request function and the method it hands to setup_context
MethodOf(op) ==
    CASE op = "get" -> "HTTPC_METHOD_GET"
      [] op \in {"post_raw", "post_vector", "post_string", "post_params"}
            -> "HTTPC_METHOD_POST"
      [] op \in {"put_raw", "put_vector", "put_string", "put_params"}
            -> "HTTPC_METHOD_PUT"
      [] op = "deleet" -> "HTTPC_METHOD_DELETE"

\* The method setup_context passes to httpcOpenContext
OpenMethod(method) == "HTTPC_METHOD_GET"

ArgSets ==
    UNION {[op : {o}, url : Urls, headers : HeaderArgs, default_proxy : Proxies,
            disable_ssl_verification : BOOLEAN, keep_alive : BOOLEAN,
            params : ParamArgs(o), body : BodyArgs(o)] : o \in Ops}

\* The owner of a response may destroy it at any time after the request
\* returned.  Member calls before that (up to MaxCalls of them, in any order)
\* are explored on the responses of the requests in DeepArgs: one request of
\* each body shape, with every optional step of setup_context switched on, so
\* that each of the ten failures can be what the response carries.
DeepArgs ==
    {a \in ArgSets :
        /\ a.op \in {"get", "post_raw", "put_params"}
        /\ a.url = "http://a/"
        /\ a.default_proxy = 0
        /\ a.disable_ssl_verification
        /\ a.keep_alive
        /\ ~a.headers.null /\ Len(a.headers.map) = 1
        /\ a.op = "put_params" => Len(a.params) = 1}

MayCall == calls < MaxCalls /\ args \in DeepArgs

Init ==
    /\ args \in ArgSets
    /\ res = NewResponse
    /\ pc = "open"
    /\ it = 1
    /\ caller = "none"
    /\ log = <<>>
    /\ ret = <<>>
    /\ lastOp = "none"
    /\ calls = 0
    /\ nExplicit = 0

----------------------------------------------------------------------------
(* setup_context, step by step *)

\* add_headers makes no call: headers == nullptr, or an empty map
NoHeaders == args.headers.null \/ Len(args.headers.map) = 0

\* where the request function goes once setup_context has returned true
AfterSetup ==
    IF args.op \in RawOps THEN "raw"
    ELSE IF args.op \in ParamOps /\ Len(args.params) > 0 THEN "param"
    ELSE "begin"

AfterHeaders == "ka"
AfterUserAgent == IF NoHeaders THEN AfterHeaders ELSE "hdr"
\* Variant: setup_context going from the open call straight to User-Agent
AfterOpen_SkipSSL == "ua"

AfterOpen == IF args.disable_ssl_verification THEN "ssl" ELSE "ua"
\* Variant: the Connection header added whatever keep_alive says
AfterKeepAlive_Always == "kah"

AfterKeepAlive == IF args.keep_alive THEN "kah" ELSE AfterSetup

\* Variant: the macro without its `return false`; the failure is recorded
\* and setup goes on with the next step
Step_NoReturn(here, fail, name, a, next) ==
    /\ pc = here
    /\ \E r \in Results :
        /\ log' = Append(log, Call(here, name, a, r))
        /\ res' = IF R_FAILED(r) THEN FalseIfFailed(res, fail, r) ELSE res
        /\ pc' = next
    /\ UNCHANGED <<args, caller, ret, lastOp, calls, nExplicit>>

\* A step guarded by _CTRQ_FALSE_IF_FAILED: the call is made; a failure
\* records (fail, result) and the request function returns res at once.
Step(here, fail, name, a, next) ==
    /\ pc = here
    /\ \E r \in Results :
        /\ log' = Append(log, Call(here, name, a, r))
        /\ IF R_FAILED(r)
           THEN /\ res' = FalseIfFailed(res, fail, r)
                /\ pc' = "returned"
           ELSE /\ res' = res
                /\ pc' = next
    /\ UNCHANGED <<args, caller, ret, lastOp, calls, nExplicit>>

OpenContext ==
    /\ Step("open", "OPEN_CONTEXT", "httpcOpenContext",
            <<OpenMethod(MethodOf(args.op)), args.url, args.default_proxy>>,
            AfterOpen)
    /\ it' = it

SetSSLOpt ==
    /\ Step("ssl", "DISABLE_SSL_VERIFY", "httpcSetSSLOpt",
            <<"SSLCOPT_DisableVerify">>, "ua")
    /\ it' = it

SetUserAgent ==
    /\ Step("ua", "SET_USER_AGENT", "httpcAddRequestHeaderField",
            <<"User-Agent", CTRQ_USER_AGENT>>, AfterUserAgent)
    /\ it' = 1

\* Variant: add_headers passing it->second as the name and it->first as the value
AddHeader_Swapped ==
    /\ pc = "hdr"
    /\ Step("hdr", "SET_HEADER", "httpcAddRequestHeaderField",
            <<args.headers.map[it][3], args.headers.map[it][2]>>,
            IF it < Len(args.headers.map) THEN "hdr" ELSE AfterHeaders)
    /\ it' = it + 1

\* one iteration of add_headers' loop; its failure is setup_context's SET_HEADER
AddHeader ==
    /\ pc = "hdr"
    /\ Step("hdr", "SET_HEADER", "httpcAddRequestHeaderField",
            <<args.headers.map[it][2], args.headers.map[it][3]>>,
            IF it < Len(args.headers.map) THEN "hdr" ELSE AfterHeaders)
    /\ it' = it + 1

SetKeepAlive ==
    /\ Step("ka", "SET_KEEP_ALIVE", "httpcSetKeepAlive",
            <<IF args.keep_alive THEN "HTTPC_KEEPALIVE_ENABLED"
              ELSE "HTTPC_KEEPALIVE_DISABLED">>, AfterKeepAlive)
    /\ it' = 1

SetKeepAliveHeader ==
    /\ Step("kah", "SET_KEEP_ALIVE_HEADER", "httpcAddRequestHeaderField",
            <<"Connection", "Keep-Alive">>, AfterSetup)
    /\ it' = 1

----------------------------------------------------------------------------
(* Body attachment *)

\* Variant: a request function that does not return when add_raw_post_data
\* reports a failure
AddRawPostData_NoReturn ==
    /\ pc = "raw"
    /\ \E r \in Results :
        /\ log' = Append(log, Call("raw", "httpcAddPostDataRaw",
                                   <<args.body, Len(args.body)>>, r))
        /\ res' = IF R_FAILED(r)
                  THEN [res EXCEPT !.result = r, !.failure = "ADD_RAW_POST_DATA"]
                  ELSE [res EXCEPT !.result = r]
        /\ pc' = "begin"
    /\ UNCHANGED <<args, it, caller, ret, lastOp, calls, nExplicit>>

\* add_raw_post_data: res.result takes the call's result whatever it is
AddRawPostData ==
    /\ pc = "raw"
    /\ \E r \in Results :
        /\ log' = Append(log, Call("raw", "httpcAddPostDataRaw",
                                   <<args.body, Len(args.body)>>, r))
        /\ IF R_FAILED(r)
           THEN /\ res' = [res EXCEPT !.result = r, !.failure = "ADD_RAW_POST_DATA"]
                /\ pc' = "returned"
           ELSE /\ res' = [res EXCEPT !.result = r]
                /\ pc' = "begin"
    /\ UNCHANGED <<args, it, caller, ret, lastOp, calls, nExplicit>>

\* Variant: add_ascii_post_params going on with the next pair after a failure
AddAsciiPostParam_Continue ==
    /\ pc = "param"
    /\ \E r \in Results :
        /\ log' = Append(log, Call("param", "httpcAddPostDataAscii",
                                   <<args.params[it][2], args.params[it][3]>>, r))
        /\ res' = IF R_FAILED(r)
                  THEN [res EXCEPT !.result = r, !.failure = "ADD_ASCII_POST_PARAM"]
                  ELSE [res EXCEPT !.result = r]
        /\ pc' = IF it < Len(args.params) THEN "param"
                 ELSE IF R_FAILED(r) THEN "returned" ELSE "begin"
    /\ it' = it + 1
    /\ UNCHANGED <<args, caller, ret, lastOp, calls, nExplicit>>

\* one iteration of add_ascii_post_params' loop (add_ascii_post_param)
AddAsciiPostParam ==
    /\ pc = "param"
    /\ \E r \in Results :
        /\ log' = Append(log, Call("param", "httpcAddPostDataAscii",
                                   <<args.params[it][2], args.params[it][3]>>, r))
        /\ IF R_FAILED(r)
           THEN /\ res' = [res EXCEPT !.result = r, !.failure = "ADD_ASCII_POST_PARAM"]
                /\ pc' = "returned"
           ELSE /\ res' = [res EXCEPT !.result = r]
                /\ pc' = IF it < Len(args.params) THEN "param" ELSE "begin"
    /\ it' = it + 1
    /\ UNCHANGED <<args, caller, ret, lastOp, calls, nExplicit>>

----------------------------------------------------------------------------
(* perform_request *)

BeginRequest ==
    /\ Step("begin", "BEGIN_REQUEST", "httpcBeginRequest", <<>>, "status")
    /\ it' = it

\* httpcGetResponseStatusCode writes the status it reports into res.status
\* when it succeeds, and leaves res.status alone when it fails
GetResponseStatusCode ==
    /\ pc = "status"
    /\ \E r \in Results :
        /\ IF R_FAILED(r)
           THEN /\ log' = Append(log, Call("status", "httpcGetResponseStatusCode",
                                           <<>>, r))
                /\ res' = FalseIfFailed(res, "GET_RESPONSE_STATUS_CODE", r)
           ELSE \E s \in StatusCodes :
                /\ log' = Append(log, Call("status", "httpcGetResponseStatusCode",
                                           <<s>>, r))
                /\ res' = [res EXCEPT !.status = s]
        /\ pc' = "returned"
    /\ UNCHANGED <<args, it, caller, ret, lastOp, calls, nExplicit>>

Request ==
    \/ OpenContext
    \/ SetSSLOpt
    \/ SetUserAgent
    \/ AddHeader
    \/ SetKeepAlive
    \/ SetKeepAliveHeader
    \/ AddRawPostData
    \/ AddAsciiPostParam
    \/ BeginRequest
    \/ GetResponseStatusCode

----------------------------------------------------------------------------
(* The response's member functions, called by the owner of the response *)

RECURSIVE CString(_)
\* std::string(const char*): the characters before the first NUL
CString(buffer) ==
    IF buffer = <<>> \/ Head(buffer) = 0 THEN <<>>
    ELSE <<Head(buffer)>> \o CString(Tail(buffer))

\* Variant: the text built from the data pointer alone, ending at the first NUL
StdString_CStr(data, n) == CString(data)

\* std::string(const char* s, size_t n): exactly n characters starting at s
StdString(data, n) == SubSeq(data, 1, n)

\* get_header: the transport is asked on every call; its result is dropped
GetHeader ==
    /\ pc = "returned"
    /\ MayCall
    /\ \E header \in HeaderNames, b \in HeaderBuffers, r \in Results :
        IF res.http_context_closed
        THEN /\ ret' = <<>>
             /\ log' = log
        ELSE /\ Len(b) < CTRQ_HEADER_BUFFER_SIZE
             /\ log' = Append(log, Call("get_header", "httpcGetResponseHeader",
                                        <<header, CTRQ_HEADER_BUFFER_SIZE>>, r))
             /\ ret' = CString(b)
    /\ lastOp' = "get_header"
    /\ calls' = calls + 1
    /\ UNCHANGED <<args, res, pc, it, caller, nExplicit>>

\* Variant: get_body without the body_populated test
GetBody_NoCache ==
    /\ pc = "returned"
    /\ MayCall
    /\ IF res.http_context_closed
       THEN /\ ret' = res.body
            /\ UNCHANGED <<pc, caller>>
       ELSE /\ pc' = "download"
            /\ caller' = "get_body"
            /\ ret' = ret
    /\ lastOp' = "get_body"
    /\ calls' = calls + 1
    /\ UNCHANGED <<args, res, it, log, nExplicit>>

\* get_body up to its loop: the cached buffer, or into the download loop
GetBody ==
    /\ pc = "returned"
    /\ MayCall
    /\ IF res.body_populated \/ res.http_context_closed
       THEN /\ ret' = res.body
            /\ UNCHANGED <<pc, caller>>
       ELSE /\ pc' = "download"
            /\ caller' = "get_body"
            /\ ret' = ret
    /\ lastOp' = "get_body"
    /\ calls' = calls + 1
    /\ UNCHANGED <<args, res, it, log, nExplicit>>

\* Variant: the copy takes everything the transport left in the buffer
Copied_WholeBuffer(c) == c.data

\* std::copy(buffer, buffer + downloaded_size, std::back_inserter(body))
Copied(c) == SubSeq(c.data, 1, c.size)

\* Variant: the loop going on while the result is any failure code
LoopAgain_OnFailure(r) == R_FAILED(r)

\* the do-while's condition
LoopAgain(r) == r = HTTPC_RESULTCODE_DOWNLOADPENDING

NumCalls(l, name) == Cardinality({i \in 1..Len(l) : l[i].call = name})

\* Variant: the download loop without `body_populated = true` after it
DownloadData_NoFlag ==
    /\ pc = "download"
    /\ \E r \in DownloadResults, c \in Chunks :
        /\ r = HTTPC_RESULTCODE_DOWNLOADPENDING
              => NumCalls(log, "httpcDownloadData") + 1 < MaxDownloads
        /\ log' = Append(log, Call("download", "httpcDownloadData",
                                   <<CTRQ_DOWNLOAD_BUFFER_SIZE, c.size, c.data>>, r))
        /\ LET body == res.body \o Copied(c)
           IN  /\ res' = [res EXCEPT !.result = r, !.body = body,
                                     !.body_string =
                                        IF r # HTTPC_RESULTCODE_DOWNLOADPENDING
                                           /\ caller = "get_body_string"
                                        THEN StdString(body, Len(body)) ELSE @]
               /\ IF r = HTTPC_RESULTCODE_DOWNLOADPENDING
                  THEN UNCHANGED <<pc, caller, ret>>
                  ELSE /\ pc' = "returned"
                       /\ caller' = "none"
                       /\ ret' = body
    /\ UNCHANGED <<args, it, lastOp, calls, nExplicit>>

\* One iteration of get_body's do-while: the member `result` takes the
\* call's result, the reported bytes are appended; the loop goes on while the
\* result is DOWNLOADPENDING, and get_body (and get_body_string, when it is
\* the caller) finishes otherwise.
DownloadData ==
    /\ pc = "download"
    /\ \E r \in DownloadResults, c \in Chunks :
        /\ c.size <= CTRQ_DOWNLOAD_BUFFER_SIZE
        /\ LoopAgain(r)
              => NumCalls(log, "httpcDownloadData") + 1 < MaxDownloads
        /\ log' = Append(log, Call("download", "httpcDownloadData",
                                   <<CTRQ_DOWNLOAD_BUFFER_SIZE, c.size, c.data>>, r))
        /\ LET body == res.body \o Copied(c)
           IN  IF LoopAgain(r)
               THEN /\ res' = [res EXCEPT !.result = r, !.body = body]
                    /\ UNCHANGED <<pc, caller, ret>>
               ELSE /\ pc' = "returned"
                    /\ caller' = "none"
                    /\ IF caller = "get_body_string"
                       THEN /\ res' = [res EXCEPT !.result = r, !.body = body,
                                                  !.body_populated = TRUE,
                                                  !.body_string = StdString(body, Len(body))]
                            /\ ret' = StdString(body, Len(body))
                       ELSE /\ res' = [res EXCEPT !.result = r, !.body = body,
                                                  !.body_populated = TRUE]
                            /\ ret' = body
    /\ UNCHANGED <<args, it, lastOp, calls, nExplicit>>

\* get_body_string: the cached text when the flag says so, else the text of
\* get_body()'s buffer; body_string_populated is not written here
GetBodyString ==
    /\ pc = "returned"
    /\ MayCall
    /\ IF res.http_context_closed \/ res.body_string_populated
       THEN /\ ret' = res.body_string
            /\ UNCHANGED <<res, pc, caller>>
       ELSE IF res.body_populated \/ res.http_context_closed
       THEN /\ res' = [res EXCEPT !.body_string = StdString(res.body, Len(res.body))]
            /\ ret' = StdString(res.body, Len(res.body))
            /\ UNCHANGED <<pc, caller>>
       ELSE /\ pc' = "download"
            /\ caller' = "get_body_string"
            /\ UNCHANGED <<res, ret>>
    /\ lastOp' = "get_body_string"
    /\ calls' = calls + 1
    /\ UNCHANGED <<args, it, log, nExplicit>>

\* close_context's body: the transport closes the context unless the flag is
\* set; the flag itself is left as it is
close_context(l) ==
    IF ~res.http_context_closed
    THEN Append(l, Call("close", "httpcCloseContext", <<>>, 0))
    ELSE l

\* an explicit close_context() call by the owner
CloseContext ==
    /\ pc = "returned"
    /\ MayCall
    /\ log' = close_context(log)
    /\ lastOp' = "close_context"
    /\ calls' = calls + 1
    /\ nExplicit' = nExplicit + 1
    /\ UNCHANGED <<args, res, pc, it, caller, ret>>

\* Variant: a destructor that does not call close_context
Destroy_NoClose ==
    /\ pc = "returned"
    /\ log' = log
    /\ pc' = "destroyed"
    /\ lastOp' = "~response"
    /\ UNCHANGED <<args, res, it, caller, ret, calls, nExplicit>>

\* ~response
Destroy ==
    /\ pc = "returned"
    /\ log' = close_context(log)
    /\ pc' = "destroyed"
    /\ lastOp' = "~response"
    /\ UNCHANGED <<args, res, it, caller, ret, calls, nExplicit>>

Response ==
    \/ GetHeader
    \/ GetBody
    \/ DownloadData
    \/ GetBodyString
    \/ CloseContext
    \/ Destroy

Next == Request \/ Response

Spec == Init /\ [][Next]_vars

\* get_body is synchronous: once in its loop, the thread goes on calling the
\* transport until the loop ends
SpecFair == Spec /\ WF_vars(DownloadData)

----------------------------------------------------------------------------
(* Vocabulary of the properties *)

PrepSteps == {"open", "ssl", "ua", "hdr", "ka", "kah"}
RequestSteps == PrepSteps \cup {"raw", "param", "begin", "status"}

\* The failure each step of the fixed order is named by (spec, sections 4.1-4.3)
StepFailure(step) ==
    CASE step = "open" -> "OPEN_CONTEXT"
      [] step = "ssl" -> "DISABLE_SSL_VERIFY"
      [] step = "ua" -> "SET_USER_AGENT"
      [] step = "hdr" -> "SET_HEADER"
      [] step = "ka" -> "SET_KEEP_ALIVE"
      [] step = "kah" -> "SET_KEEP_ALIVE_HEADER"
      [] step = "raw" -> "ADD_RAW_POST_DATA"
      [] step = "param" -> "ADD_ASCII_POST_PARAM"
      [] step = "begin" -> "BEGIN_REQUEST"
      [] step = "status" -> "GET_RESPONSE_STATUS_CODE"

Repeat(x, n) == [k \in 1..n |-> x]

\* The steps a request with arguments a has to complete before execution
StepsBeforeBegin(a) ==
    <<"open">>
    \o (IF a.disable_ssl_verification THEN <<"ssl">> ELSE <<>>)
    \o <<"ua">>
    \o (IF a.headers.null THEN <<>> ELSE Repeat("hdr", Len(a.headers.map)))
    \o <<"ka">>
    \o (IF a.keep_alive THEN <<"kah">> ELSE <<>>)
    \o (IF a.op \in RawOps THEN <<"raw">>
        ELSE IF a.op \in ParamOps THEN Repeat("param", Len(a.params))
        ELSE <<>>)

Returned == pc \in {"returned", "download", "destroyed"}
Accessors == {"get_header", "get_body", "get_body_string"}
DownloadCalls == {i \in 1..Len(log) : log[i].call = "httpcDownloadData"}

----------------------------------------------------------------------------
(* C1: preparation failure ordering.  Whenever a step of setup_context has
   failed, the response carries that step's failure, the request function
   has returned, and no step of the request was invoked after it. *)
C1_PreparationFailureOrdering ==
    \A i \in 1..Len(log) :
        (log[i].step \in PrepSteps /\ R_FAILED(log[i].r)) =>
            /\ Returned
            /\ res.failure = StepFailure(log[i].step)
            /\ \A j \in (i + 1)..Len(log) : log[j].step \notin RequestSteps

\* the second custom header failed, and the request has returned
C1_Witness ==
    /\ pc = "returned"
    /\ Len(log) >= 2
    /\ log[Len(log)].step = "hdr" /\ R_FAILED(log[Len(log)].r)
    /\ log[Len(log) - 1].step = "hdr"
    /\ args.op = "put_vector"

(* C2: with no explicit close_context() call, a destroyed response has had
   its context closed exactly once, whatever the request was and wherever it
   failed. *)
C2_ReleasedExactlyOnce ==
    (pc = "destroyed" /\ nExplicit = 0) =>
        NumCalls(log, "httpcCloseContext") = 1

\* a response whose context failed to open has been destroyed
C2_Witness ==
    /\ pc = "destroyed"
    /\ nExplicit = 0
    /\ res.failure = "OPEN_CONTEXT"
    /\ NumCalls(log, "httpcCloseContext") = 1

(* C3: close_context() is idempotent: after k >= 1 explicit calls and the
   destruction of the response, the transport has closed the context exactly
   once. *)
C3_CloseContextIdempotent ==
    (pc = "destroyed" /\ nExplicit >= 1) =>
        NumCalls(log, "httpcCloseContext") = 1

(* C4: once close_context() has been called, get_header, get_body and
   get_body_string make no transport call and return an empty value. *)
C4_NoTransportAfterRelease ==
    [][nExplicit >= 1 =>
        /\ \A i \in (Len(log) + 1)..Len(log') :
              log'[i].call \notin {"httpcGetResponseHeader", "httpcDownloadData"}
        /\ (calls' = calls + 1 /\ lastOp' \in Accessors) =>
              (pc' = "returned" /\ ret' = <<>>)]_vars

(* C5: httpcBeginRequest is called only after every preparation and body
   step of the request has been made and has succeeded, and
   httpcGetResponseStatusCode only directly after a successful
   httpcBeginRequest. *)
C5_ExecutionOnlyAfterSuccess ==
    \A i \in 1..Len(log) :
        /\ log[i].step = "begin" =>
              /\ \A j \in 1..(i - 1) : ~R_FAILED(log[j].r)
              /\ [j \in 1..(i - 1) |-> log[j].step] = StepsBeforeBegin(args)
        /\ log[i].step = "status" =>
              /\ i > 1
              /\ log[i - 1].step = "begin"
              /\ ~R_FAILED(log[i - 1].r)

\* a put with two form parameters got as far as the status code
C5_Witness ==
    /\ args.op = "put_params"
    /\ Len(args.params) = 2
    /\ Len(log) > 0
    /\ log[Len(log)].step = "status"

(* C6: whenever the owner can look at a response, failure differs from NONE
   exactly when has_failed() is true. *)
C6_FailureIffHasFailed ==
    pc \in {"returned", "destroyed"} =>
        ((res.failure # "NONE") <=> has_failed(res))

(* C7: httpcOpenContext is called with the request function's own method,
   the caller's url and the caller's proxy selector. *)
C7_OwnMethod ==
    \A i \in 1..Len(log) :
        log[i].step = "open" =>
            log[i].a = <<MethodOf(args.op), args.url, args.default_proxy>>

(* C8: get_body() is idempotent.  The call that populates the body returns
   the populated buffer; from then on the buffer never changes, and every
   get_body() call returns it without any transport call, whether the
   download ended normally or with an error. *)
C8_GetBodyIdempotent ==
    [][/\ (~res.body_populated /\ res'.body_populated /\ caller = "get_body") =>
              ret' = res'.body
       /\ res.body_populated =>
              /\ res'.body_populated
              /\ res'.body = res.body
              /\ (calls' = calls + 1 /\ lastOp' = "get_body") =>
                    /\ pc' = "returned"
                    /\ ret' = res.body
                    /\ log' = log]_vars

\* a first get_body() whose download ended with an error, then a second one
C8_Witness ==
    /\ pc = "returned"
    /\ calls = 2
    /\ lastOp = "get_body"
    /\ nExplicit = 0
    /\ NumCalls(log, "httpcGetResponseHeader") = 0
    /\ res.body_populated
    /\ R_FAILED(res.result)
    /\ res.failure = "NONE"
    /\ res.body # <<>>
    /\ res.body_string = <<>>
    /\ ret = res.body

(* C9 as stated: the transport's download operation is invoked at most once
   across any number of get_body() calls. *)
C9_DownloadInvokedAtMostOnce ==
    Cardinality(DownloadCalls) <= 1

(* C9, amended: the download loop runs at most once.  The download calls are
   consecutive, every one but the last was answered DOWNLOADPENDING, and once
   the loop is over the body is populated and the last call was answered
   something else. *)
C9_DownloadLoopAtMostOnce ==
    /\ \A i \in DownloadCalls, j \in DownloadCalls :
          i < j =>
              /\ log[i].r = HTTPC_RESULTCODE_DOWNLOADPENDING
              /\ \A k \in i..j : k \in DownloadCalls
    /\ (DownloadCalls # {} /\ pc # "download") =>
          /\ res.body_populated
          /\ \E i \in DownloadCalls :
                log[i].r # HTTPC_RESULTCODE_DOWNLOADPENDING

\* a two-chunk download, then one more get_body()
C9_Witness ==
    /\ pc = "returned"
    /\ Cardinality(DownloadCalls) = 2
    /\ calls = 2
    /\ lastOp = "get_body"
    /\ nExplicit = 0
    /\ NumCalls(log, "httpcGetResponseHeader") = 0
    /\ res.body_string = <<>> /\ res.body # <<>>

(* C10: has_failed() is independent of the HTTP status.  When every step of
   the request succeeded, the response as returned has has_failed() false,
   failure NONE and the status the transport reported. *)
C10_StatusIsNotFailure ==
    (/\ pc = "returned"
     /\ calls = 0
     /\ Len(log) > 0
     /\ \A i \in 1..Len(log) : ~R_FAILED(log[i].r)) =>
        /\ log[Len(log)].step = "status"
        /\ ~has_failed(res)
        /\ res.failure = "NONE"
        /\ res.status = log[Len(log)].a[1]

\* a post whose exchange completed with status 404
C10_Witness ==
    /\ pc = "returned"
    /\ calls = 0
    /\ args.op = "post_string"
    /\ \A i \in 1..Len(log) : ~R_FAILED(log[i].r)
    /\ res.status = 404

(* C11: form parameters stop at the first failing pair.  Once the transport
   has failed to attach a pair, the request has returned, no later pair was
   attached and httpcBeginRequest was not called, failure is
   ADD_ASCII_POST_PARAM, status is 0, and has_failed() is true (for as long as
   no download has been run on the response). *)
C11_FormParamsAbortAtFirstFailure ==
    \A i \in 1..Len(log) :
        (log[i].step = "param" /\ R_FAILED(log[i].r)) =>
            /\ Returned
            /\ \A j \in (i + 1)..Len(log) : log[j].step \notin RequestSteps
            /\ res.failure = "ADD_ASCII_POST_PARAM"
            /\ res.status = 0
            /\ DownloadCalls = {} => has_failed(res)

\* the first of two pairs failed; the second was never attached
C11_Witness ==
    /\ pc = "returned"
    /\ args.op = "post_params"
    /\ Len(args.params) = 2
    /\ Len(log) > 0
    /\ log[Len(log)].step = "param"
    /\ log[Len(log)].a = <<"a", "1">>
    /\ R_FAILED(log[Len(log)].r)

StepCalls(step) == {i \in 1..Len(log) : log[i].step = step}

(* C12: the optional steps follow their flags.  httpcSetKeepAlive gets the
   flag's value.  With keep_alive false the Connection header is never added;
   with keep_alive true it is added exactly once, directly after a successful
   httpcSetKeepAlive.  httpcSetSSLOpt is called (once, directly after a
   successful httpcOpenContext) exactly when disable_ssl_verification is
   true. *)
C12_OptionalStepsGated ==
    /\ \A i \in StepCalls("ka") :
          log[i].a = <<IF args.keep_alive THEN "HTTPC_KEEPALIVE_ENABLED"
                       ELSE "HTTPC_KEEPALIVE_DISABLED">>
    /\ ~args.keep_alive => StepCalls("kah") = {}
    /\ \A i \in StepCalls("kah") :
          /\ log[i].call = "httpcAddRequestHeaderField"
          /\ log[i].a = <<"Connection", "Keep-Alive">>
          /\ i > 1 /\ log[i - 1].step = "ka" /\ ~R_FAILED(log[i - 1].r)
    /\ (/\ args.keep_alive
        /\ pc # "kah"
        /\ \E i \in StepCalls("ka") : ~R_FAILED(log[i].r)) =>
          Cardinality(StepCalls("kah")) = 1
    /\ ~args.disable_ssl_verification => StepCalls("ssl") = {}
    /\ \A i \in StepCalls("ssl") :
          /\ log[i].call = "httpcSetSSLOpt"
          /\ i > 1 /\ log[i - 1].step = "open" /\ ~R_FAILED(log[i - 1].r)
    /\ (/\ args.disable_ssl_verification
        /\ pc # "ssl"
        /\ \E i \in StepCalls("open") : ~R_FAILED(log[i].r)) =>
          Cardinality(StepCalls("ssl")) = 1

\* a completed request with both flags off: the keep-alive flag was set to
\* disabled and neither optional call was made
C12_Witness ==
    /\ pc = "returned"
    /\ ~args.keep_alive
    /\ ~args.disable_ssl_verification
    /\ res.status = 200
    /\ \E i \in StepCalls("ka") : ~R_FAILED(log[i].r)
    /\ StepCalls("kah") = {} /\ StepCalls("ssl") = {}

\* What reading the request headers back from the transport yields: the
\* fields the transport accepted
RequestHeaderCalls ==
    {i \in 1..Len(log) :
        log[i].call = "httpcAddRequestHeaderField" /\ ~R_FAILED(log[i].r)}
RequestHeaders == {log[i].a : i \in RequestHeaderCalls}

\* The entries of the caller's header mapping (none for nullptr)
HeaderEntries(h) ==
    IF h.null THEN {}
    ELSE {<<h.map[k][2], h.map[k][3]>> : k \in 1..Len(h.map)}

\* setup_context has made its last call, and every call succeeded
SetupSucceeded ==
    \E i \in StepCalls(IF args.keep_alive THEN "kah" ELSE "ka") :
        ~R_FAILED(log[i].r)

(* C13 as stated: after a successful preparation with headers = H, the
   request headers read back from the transport are exactly the entries of
   H. *)
C13_ReadBackIsExactlyH ==
    SetupSucceeded => RequestHeaders = HeaderEntries(args.headers)

(* C13, amended: after a successful preparation with headers = H, the request
   headers read back are the entries of H, each added once, together with the
   fixed User-Agent header and, when keep_alive is true, the
   Connection: Keep-Alive header. *)
C13_ReadBackIsHPlusFixedHeaders ==
    SetupSucceeded =>
        /\ RequestHeaders =
              HeaderEntries(args.headers)
                 \cup {<<"User-Agent", CTRQ_USER_AGENT>>}
                 \cup (IF args.keep_alive THEN {<<"Connection", "Keep-Alive">>}
                       ELSE {})
        /\ Cardinality(RequestHeaderCalls) = Cardinality(RequestHeaders)

\* a prepared context with two caller headers and keep-alive
C13_Witness ==
    /\ SetupSucceeded
    /\ args.keep_alive
    /\ ~args.headers.null
    /\ Len(args.headers.map) = 2
    /\ <<"b", "2">> \in RequestHeaders

(* C14: get_body_string() agrees with get_body().  What get_body_string()
   returns, and what the response keeps as its text, has the length and the
   bytes of the body buffer, embedded zero bytes included; a get_body() call
   on the same response returns that same buffer. *)
C14_BodyStringMatchesBody ==
    /\ (pc = "returned" /\ lastOp = "get_body_string") =>
          /\ Len(ret) = Len(res.body)
          /\ \A k \in 1..Len(res.body) : ret[k] = res.body[k]
          /\ res.body_string = ret
          /\ res.body_populated
    /\ (pc = "returned" /\ lastOp = "get_body") => ret = res.body
    /\ res.body_string # <<>> => res.body_string = res.body

\* get_body_string() then get_body() on a body with an embedded zero byte
C14_Witness ==
    /\ pc = "returned"
    /\ calls = 2
    /\ lastOp = "get_body"
    /\ nExplicit = 0
    /\ Len(res.body) >= 3
    /\ res.body[2] = 0
    /\ res.body_string = res.body
    /\ ret = res.body_string

\* The transport calls of the request itself, in order
RequestLog == SelectSeq(log, LAMBDA e : e.step \in RequestSteps)

\* The fixed order of a request with arguments a
FixedOrder(a) == StepsBeforeBegin(a) \o <<"begin", "status">>

(* C15: the transport calls of a request follow the fixed order.  At every
   moment the calls made so far are the first calls of open, TLS option (if
   requested), User-Agent, every caller header in map order, keep-alive flag,
   Connection header (if keep-alive), body attachment (post/put),
   begin-request, get-status; every call but the last made has succeeded; and
   a request that returned with every call successful has made them all. *)
C15_FixedOrder ==
    LET made == RequestLog
        order == FixedOrder(args)
        firstHdr == CHOOSE i \in 1..(Len(order) + 1) :
                        (i = Len(order) + 1 \/ order[i] = "hdr")
                        /\ \A j \in 1..(i - 1) : order[j] # "hdr"
    IN  /\ Len(made) <= Len(order)
        /\ \A i \in 1..Len(made) :
              /\ made[i].step = order[i]
              /\ i < Len(made) => ~R_FAILED(made[i].r)
              /\ made[i].step = "hdr" =>
                    made[i].a = <<args.headers.map[i - firstHdr + 1][2],
                                  args.headers.map[i - firstHdr + 1][3]>>
        /\ (Returned /\ \A i \in 1..Len(made) : ~R_FAILED(made[i].r)) =>
              Len(made) = Len(order)

\* a put with two headers, two form parameters and both optional steps, done
C15_Witness ==
    /\ pc = "returned"
    /\ args.op = "put_params"
    /\ args.disable_ssl_verification /\ args.keep_alive
    /\ ~args.headers.null /\ Len(args.headers.map) = 2
    /\ Len(args.params) = 2
    /\ Len(RequestLog) = 11
    /\ \A i \in 1..Len(log) : ~R_FAILED(log[i].r)

RECURSIVE Delivered(_)
\* The bytes the download calls of l delivered, in call order: of each call,
\* the first `size` bytes of what it wrote
Delivered(l) ==
    IF l = <<>> THEN <<>>
    ELSE IF Head(l).call = "httpcDownloadData"
         THEN SubSeq(Head(l).a[3], 1, Head(l).a[2]) \o Delivered(Tail(l))
         ELSE Delivered(Tail(l))

(* C16: the body is the in-order concatenation of the delivered chunks.  The
   buffer always holds exactly the bytes the download calls made so far have
   delivered; the loop asks again only after a DOWNLOADPENDING answer and
   stops at the first other answer, after which the body is populated. *)
C16_BodyIsConcatenationOfChunks ==
    /\ res.body = Delivered(log)
    /\ \A i \in DownloadCalls : log[i].a[2] <= CTRQ_DOWNLOAD_BUFFER_SIZE
    /\ pc = "download" =>
          \A i \in DownloadCalls : log[i].r = HTTPC_RESULTCODE_DOWNLOADPENDING
    /\ (pc # "download" /\ DownloadCalls # {}) =>
          LET last == CHOOSE i \in DownloadCalls : \A j \in DownloadCalls : j <= i
          IN  /\ log[last].r # HTTPC_RESULTCODE_DOWNLOADPENDING
              /\ \A j \in DownloadCalls \ {last} :
                    log[j].r = HTTPC_RESULTCODE_DOWNLOADPENDING
              /\ res.body_populated

\* two chunks, the first with more bytes in the buffer than it reported
C16_Witness ==
    /\ pc = "returned"
    /\ lastOp = "get_body"
    /\ calls = 1
    /\ Cardinality(DownloadCalls) = 2
    /\ \E i \in DownloadCalls : log[i].a[3] = <<104, 0, 105>> /\ log[i].a[2] = 2
    /\ res.body = <<104, 0, 0>>
    /\ ret = res.body

(* C17: get_body() terminates when the transport eventually answers a
   download call with something other than DOWNLOADPENDING.  A step of the
   loop is one more download call; after a DOWNLOADPENDING answer the loop is
   still running, after any other answer get_body is over with the body
   populated; and a running loop leads to a populated body. *)
C17_DownloadLoopTerminates ==
    /\ [][pc = "download" =>
            /\ Len(log') = Len(log) + 1
            /\ log'[Len(log')].call = "httpcDownloadData"
            /\ IF log'[Len(log')].r = HTTPC_RESULTCODE_DOWNLOADPENDING
               THEN pc' = "download" /\ ~res'.body_populated
               ELSE pc' = "returned" /\ res'.body_populated]_vars
    /\ (pc = "download") ~> (pc = "returned" /\ res.body_populated)

\* the loop ended on an error code after a pending answer
C17_Witness ==
    /\ pc = "returned"
    /\ res.body_populated
    /\ Cardinality(DownloadCalls) = 2
    /\ res.result = -1
    /\ lastOp = "get_body_string"

(* C18: the text of the body is computed at most once.  After a
   get_body_string() call has returned, body_string_populated is set, and a
   later get_body_string() call leaves the response as it is and returns the
   cached text. *)
C18_TextComputedOnce ==
    [][/\ (pc' = "returned" /\ lastOp' = "get_body_string") =>
              res'.body_string_populated
       /\ (pc = "returned" /\ lastOp = "get_body_string"
           /\ calls' = calls + 1 /\ lastOp' = "get_body_string") =>
              /\ res.body_string_populated
              /\ res' = res
              /\ ret' = res.body_string]_vars

(* C19: status stays 0 until it is retrieved.  A status other than 0 is the
   one a successful httpcGetResponseStatusCode reported for this request, and
   a response carrying any failure of the request has status 0. *)
C19_StatusZeroUntilRetrieved ==
    /\ res.status # 0 =>
          \E i \in StepCalls("status") :
              ~R_FAILED(log[i].r) /\ log[i].a = <<res.status>>
    /\ res.failure # "NONE" => res.status = 0
    /\ StepCalls("status") = {} => res.status = 0

\* httpcBeginRequest failed: the status was never asked for
C19_Witness ==
    /\ pc = "returned"
    /\ res.failure = "BEGIN_REQUEST"
    /\ StepCalls("status") = {}
    /\ res.status = 0
    /\ args.op = "deleet"

====
